---- MODULE Spec2Model ----
(***************************************************************************)
(* Trading simulator of src/main.py: the in-memory stores simulator_db and *)
(* trades_db and the handlers initialize_simulator, get_simulator_state,   *)
(* execute_trade, get_trade_history and update_stock_prices.               *)
(*                                                                         *)
(* Money is held in integer cents (175.50 is 17550).  An average price is  *)
(* an exact fraction <<numerator, denominator>> of cents in lowest terms,  *)
(* so the weighted-average formula is computed as written and not assumed. *)
(* Binary floating-point rounding error is outside this model.             *)
(*                                                                         *)
(* The handlers are `async def` without any await in their bodies, so each *)
(* runs to completion on the event loop: one action per handler call.      *)
(* SpecLoop follows the handlers statement by statement under the loop's   *)
(* scheduling instead, to see what that rests on.                          *)
(***************************************************************************)
EXTENDS Integers, Sequences, FiniteSets, TLC

VARIABLES
    simulator_db,   \* user id -> TradingSimulatorState (a dict: the domain grows)
    trades_db,      \* list of TradeExecution, append-only
    response,       \* the dict most recently returned by a handler (a raise returns none)
    buy_history,    \* history: per user and symbol, the buys since the holding was last absent
    ticks,          \* history: number of update_stock_prices calls served
    now,            \* the wall clock datetime.now() reads, in clock ticks
    init_mark,      \* history: per user, the length of trades_db at the latest initialization
    tasks           \* the requests on the event loop: how far the coroutine of each has run

vars == <<simulator_db, trades_db, response, buy_history, ticks, now, init_mark, tasks>>

----------------------------------------------------------------------------
(* Bounds of the model *)

\* successful trades recorded before the model stops taking orders
MaxTrades == 2
\* the same, where an account trades two symbols
MaxPairTrades == 3
\* update_stock_prices calls before the model stops ticking
MaxTicks == 1
\* successful trades recorded where two accounts fill one journal
MaxHistoryTrades == 3
\* clock ticks the wall clock advances while the model watches
MaxClock == 1
\* the lowest price, in cents, of the price tables a long fall has led to, and how far
\* above it they range
LowestPrice == 24
PriceSpan == 50
\* an order quantity no seeded balance can pay for (1000 shares in the documented example)
BigQty == 1000

----------------------------------------------------------------------------
(* Inputs *)

Users == {"u1"}

\* every user id followed: the one above and a second account beside it
Accounts == {"u1", "u2"}

Levels == {"beginner", "intermediate", "advanced"}

\* the level strings callers send here: a recognised one and one that is not
LevelInputs == {"beginner", "expert"}

\* the symbols the model follows, out of the thirty of STOCK_DATA
TrackedSymbols == {"AAPL", "META"}

\* the tracked symbols in the order the lists of STOCK_DATA hold them
SymbolList == <<"AAPL", "META">>

STOCK_DATA ==
    [l \in Levels |->
        CASE l = "beginner"     -> {"AAPL"} \cap TrackedSymbols
          [] l = "intermediate" -> {"AAPL", "META"} \cap TrackedSymbols
          [] l = "advanced"     -> {"AAPL", "META", "BAC"} \cap TrackedSymbols]

INITIAL_PRICES ==
    [s \in TrackedSymbols |->
        CASE s = "AAPL" -> 17550
          [] s = "META" -> 32540]

initial_balances ==
    [l \in Levels |->
        CASE l = "beginner"     -> 200000
          [] l = "intermediate" -> 500000
          [] l = "advanced"     -> 1000000]

\* Optional[float]: <<>> is None, <<p>> is the price p
None == << >>
Some(p) == <<p>>

\* the (order_type, limit_price) pairs tried: no limit, a limit far below every price
\* (and below zero), a limit above every price
OrderKinds ==
    {<<"market", None>>, <<"limit", None>>, <<"limit", Some(-1000000)>>,
     <<"limit", Some(40000)>>}

Order(s, a, q, k) ==
    [symbol |-> s, action |-> a, quantity |-> q, order_type |-> k[1], limit_price |-> k[2]]

\* The orders callers send.  TradeOrder validates nothing beyond the field types:
\* quantity is any int, action any string, limit_price any float or None.
\*   - buys and sells of 1 or 2 shares, and of BigQty shares, of every kind;
\*   - a market buy of 0 shares;
\*   - an action that is neither buy nor sell, of every kind;
\*   - all of these on a symbol that no beginner price table holds.
TradeOrder ==
    { Order(s, a, q, k) : s \in TrackedSymbols, a \in {"buy", "sell"},
                          q \in {1, 2, BigQty}, k \in OrderKinds }
    \cup { Order(s, "buy", 0, <<"market", None>>) : s \in TrackedSymbols }
    \cup { Order(s, "hold", 1, k) : s \in TrackedSymbols, k \in OrderKinds }

\* the limit values get_trade_history is called with: any int, 50 when omitted
Limits == {-1, 0, 1, 2, 50}

\* the percentage changes random.uniform(-0.02, 0.02) is sampled at, in basis points
Changes == {-200, 200}

----------------------------------------------------------------------------
(* Python values *)

\* dict assignment d[k] = v and deletion del d[k]
Put(d, k, v) == [x \in (DOMAIN d) \cup {k} |-> IF x = k THEN v ELSE d[x]]
Del(d, k) == [x \in (DOMAIN d) \ {k} |-> d[x]]
EmptyDict == [x \in {} |-> 0]

Abs(n) == IF n < 0 THEN -n ELSE n

RECURSIVE GCD(_, _)
GCD(a, b) == IF b = 0 THEN a ELSE GCD(b, a % b)

\* the number n/d (d # 0) as a fraction in lowest terms with a positive denominator
Frac(n, d) ==
    LET g == GCD(Abs(n), Abs(d))
        sgn == IF d < 0 THEN -1 ELSE 1
    IN  <<sgn * (n \div g), sgn * (d \div g)>>

\* the literal 0 an absent holding's avg_price starts from
ZeroPrice == Frac(0, 1)

\* round(x, 2) of x = n / 10000 cents: to the nearest cent, an exact half to the even cent
RoundCents(n) ==
    LET q == n \div 10000
        r == n % 10000
    IN  IF 2 * r > 10000 THEN q + 1
        ELSE IF 2 * r < 10000 THEN q
        ELSE IF q % 2 = 0 THEN q ELSE q + 1

\* a variant that forgets the 1 of (1 + change_percent)
simulate_price_change_ChangeOnly(current_price, change_bp) ==
    RoundCents(current_price * change_bp)

\* simulate_price_change with the sampled change given in basis points
simulate_price_change(current_price, change_bp) ==
    RoundCents(current_price * (10000 + change_bp))

RECURSIVE SumValue(_, _, _)
SumValue(symbols, portfolio, stock_prices) ==
    IF symbols = {} THEN 0
    ELSE LET symbol == CHOOSE x \in symbols : TRUE
         IN  (IF symbol \in DOMAIN stock_prices
                 THEN portfolio[symbol].shares * stock_prices[symbol]
                 ELSE 0)
             + SumValue(symbols \ {symbol}, portfolio, stock_prices)

\* a variant that values each holding at its average cost instead of the current price
RECURSIVE SumAtCost(_, _)
SumAtCost(symbols, portfolio) ==
    IF symbols = {} THEN 0
    ELSE LET symbol == CHOOSE x \in symbols : TRUE
         IN  (portfolio[symbol].shares * portfolio[symbol].avg_price[1])
                 \div portfolio[symbol].avg_price[2]
             + SumAtCost(symbols \ {symbol}, portfolio)

calculate_portfolio_value_AtCost(portfolio, stock_prices) ==
    SumAtCost(DOMAIN portfolio, portfolio)

calculate_portfolio_value(portfolio, stock_prices) ==
    SumValue(DOMAIN portfolio, portfolio, stock_prices)

----------------------------------------------------------------------------
(* initialize_simulator *)

LevelRecognized(level) == level \in {"beginner", "intermediate", "advanced"}

\* a variant that prices every tracked symbol, whatever the level
SeedPrices_EverySymbol(level) == [symbol \in TrackedSymbols |-> INITIAL_PRICES[symbol]]

SeedPrices(level) == [symbol \in STOCK_DATA[level] |-> INITIAL_PRICES[symbol]]

\* a variant that carries the trade count of the session it replaces
NewSimulatorState_KeepsCount(user_id, level) ==
    [user_id         |-> user_id,
     level           |-> level,
     balance         |-> initial_balances[level],
     initial_balance |-> initial_balances[level],
     portfolio       |-> EmptyDict,
     stock_prices    |-> [symbol \in STOCK_DATA[level] |-> INITIAL_PRICES[symbol]],
     trade_count     |-> IF user_id \in DOMAIN simulator_db
                         THEN simulator_db[user_id].trade_count ELSE 0,
     total_pnl       |-> 0]

NewSimulatorState(user_id, level) ==
    [user_id         |-> user_id,
     level           |-> level,
     balance         |-> initial_balances[level],
     initial_balance |-> initial_balances[level],
     portfolio       |-> EmptyDict,
     stock_prices    |-> SeedPrices(level),
     trade_count     |-> 0,
     total_pnl       |-> 0]

NoBuys == [symbol \in TrackedSymbols |-> [quantity |-> 0, cost |-> 0, only_buys |-> TRUE]]

initialize_simulator(user_id, level) ==
    IF ~LevelRecognized(level)
    THEN \* raise HTTPException(400, "Invalid level")
         UNCHANGED vars
    ELSE /\ simulator_db' = Put(simulator_db, user_id, NewSimulatorState(user_id, level))
         /\ buy_history' = [buy_history EXCEPT ![user_id] = NoBuys]
         /\ response' = [op |-> "initialize_simulator", user_id |-> user_id,
                         level |-> level,
                         initial_balance |-> initial_balances[level],
                         available_stocks |-> STOCK_DATA[level],
                         stock_prices |-> SeedPrices(level)]
         /\ init_mark' = [init_mark EXCEPT ![user_id] = Len(trades_db)]
         /\ UNCHANGED <<trades_db, ticks, now, tasks>>

----------------------------------------------------------------------------
(* get_simulator_state *)

StateView(state) ==
    LET portfolio_value == calculate_portfolio_value(state.portfolio, state.stock_prices)
        total_value == state.balance + portfolio_value
        pnl == total_value - state.initial_balance
    IN  [level           |-> state.level,
         balance         |-> state.balance,
         portfolio       |-> state.portfolio,
         stock_prices    |-> state.stock_prices,
         portfolio_value |-> portfolio_value,
         total_value     |-> total_value,
         initial_balance |-> state.initial_balance,
         pnl             |-> pnl,
         trade_count     |-> state.trade_count]

get_simulator_state(user_id) ==
    IF user_id \notin DOMAIN simulator_db
    THEN \* raise HTTPException(404, "Simulator not initialized")
         UNCHANGED vars
    ELSE /\ response' = [op |-> "get_simulator_state", user_id |-> user_id,
                         body |-> StateView(simulator_db[user_id])]
         /\ UNCHANGED <<simulator_db, trades_db, buy_history, ticks, now, init_mark, tasks>>

----------------------------------------------------------------------------
(* execute_trade *)

LimitPriceMissing(order) ==
    order.order_type = "limit" /\ order.limit_price = None

\* a variant that holds only buys to their limit
LimitUnfavorable_BuyOnly(order, current_price) ==
    order.action = "buy" /\ current_price > order.limit_price[1]

\* only read once the limit price is known to be given
LimitUnfavorable(order, current_price) ==
    \/ order.action = "buy" /\ current_price > order.limit_price[1]
    \/ order.action = "sell" /\ current_price < order.limit_price[1]

\* a variant that fills every order at the market price
ExecutionPrice_AtMarket(order, current_price) == current_price

ExecutionPrice(order, current_price) ==
    IF order.order_type = "limit" THEN order.limit_price[1] ELSE current_price

\* a variant that checks the cost against the initial balance
BuyRefused_InitialBalance(state, total_value) == state.initial_balance < total_value

BuyRefused(state, total_value) == state.balance < total_value

\* a variant that also refuses a sell of exactly the shares held
SellRefused_OffByOne(state, order) ==
    \/ order.symbol \notin DOMAIN state.portfolio
    \/ state.portfolio[order.symbol].shares <= order.quantity

SellRefused(state, order) ==
    \/ order.symbol \notin DOMAIN state.portfolio
    \/ state.portfolio[order.symbol].shares < order.quantity

\* a variant that takes the plain mean of the old average and the new price
NewAvg_Unweighted(current_shares, current_avg, quantity, execution_price, new_shares) ==
    Frac(current_avg[1] + execution_price * current_avg[2], 2 * current_avg[2])

\* ((current_shares * current_avg) + (quantity * execution_price)) / new_shares
NewAvg(current_shares, current_avg, quantity, execution_price, new_shares) ==
    Frac(current_shares * current_avg[1] + quantity * execution_price * current_avg[2],
         current_avg[2] * new_shares)

\* the buy branch after the balance check; the division raises when new_shares is 0,
\* after the debit and after the empty holding was entered
ApplyBuy(state, order, execution_price, total_value) ==
    LET debited == [state EXCEPT !.balance = @ - total_value]
        opened ==
            IF order.symbol \notin DOMAIN debited.portfolio
            THEN [debited EXCEPT !.portfolio =
                     Put(@, order.symbol, [shares |-> 0, avg_price |-> ZeroPrice])]
            ELSE debited
        current_shares == opened.portfolio[order.symbol].shares
        current_avg == opened.portfolio[order.symbol].avg_price
        new_shares == current_shares + order.quantity
    IN  IF new_shares = 0
        THEN [status |-> "ZeroDivisionError", state |-> opened]
        ELSE [status |-> "ok",
              state |-> [opened EXCEPT !.portfolio =
                  Put(@, order.symbol,
                      [shares |-> new_shares,
                       avg_price |-> NewAvg(current_shares, current_avg, order.quantity,
                                            execution_price, new_shares)])]]

\* a variant that rebuilds the holding on a sell, its average set to the sale price
ApplySell_RebuildsHolding(state, order, total_value) ==
    LET credited == [state EXCEPT !.balance = @ + total_value]
        left == state.portfolio[order.symbol].shares - order.quantity
    IN  IF left = 0
        THEN [credited EXCEPT !.portfolio = Del(@, order.symbol)]
        ELSE [credited EXCEPT !.portfolio[order.symbol] =
                 [shares |-> left, avg_price |-> Frac(total_value, order.quantity)]]

\* the sell branch after the shares check
ApplySell(state, order, total_value) ==
    LET credited == [state EXCEPT !.balance = @ + total_value]
        reduced == [credited EXCEPT !.portfolio[order.symbol].shares = @ - order.quantity]
    IN  IF reduced.portfolio[order.symbol].shares = 0
        THEN [reduced EXCEPT !.portfolio = Del(@, order.symbol)]
        ELSE reduced

\* the checks and the branch taken: the status raised and the session as left behind
Executed(state, order) ==
    IF order.symbol \notin DOMAIN state.stock_prices
    THEN [status |-> "Stock not available", state |-> state]
    ELSE
    LET current_price == state.stock_prices[order.symbol] IN
    IF order.order_type = "limit" /\ LimitPriceMissing(order)
    THEN [status |-> "Limit price required for limit orders", state |-> state]
    ELSE IF order.order_type = "limit" /\ LimitUnfavorable(order, current_price)
    THEN [status |-> "Market price not favorable for limit order", state |-> state]
    ELSE
    LET execution_price == ExecutionPrice(order, current_price)
        total_value == execution_price * order.quantity
    IN  IF order.action = "buy"
        THEN IF BuyRefused(state, total_value)
             THEN [status |-> "Insufficient balance", state |-> state]
             ELSE ApplyBuy(state, order, execution_price, total_value)
        ELSE IF order.action = "sell"
        THEN IF SellRefused(state, order)
             THEN [status |-> "Insufficient shares", state |-> state]
             ELSE [status |-> "ok", state |-> ApplySell(state, order, total_value)]
        ELSE [status |-> "Invalid action", state |-> state]

\* a variant that records the price of one share as the trade's total value
TradeExecution_UnitValue(user_id, order, execution_price, total_value) ==
    [user_id     |-> user_id,
     symbol      |-> order.symbol,
     action      |-> order.action,
     quantity    |-> order.quantity,
     price       |-> execution_price,
     total_value |-> execution_price,
     timestamp   |-> now,
     order_type  |-> order.order_type]

\* TradeExecution(...) as appended to trades_db
TradeExecution(user_id, order, execution_price, total_value) ==
    [user_id     |-> user_id,
     symbol      |-> order.symbol,
     action      |-> order.action,
     quantity    |-> order.quantity,
     price       |-> execution_price,
     total_value |-> total_value,
     timestamp   |-> now,
     order_type  |-> order.order_type]

\* a variant that leaves the trade count as it is
Recorded_NotCounted(state) ==
    [state EXCEPT !.total_pnl =
        state.balance + calculate_portfolio_value(state.portfolio, state.stock_prices)
        - state.initial_balance]

\* trade_count += 1, then total_pnl from the recomputed values
Recorded(state) ==
    LET counted == [state EXCEPT !.trade_count = @ + 1]
        portfolio_value == calculate_portfolio_value(counted.portfolio, counted.stock_prices)
        total_value == counted.balance + portfolio_value
        pnl == total_value - counted.initial_balance
    IN  [counted EXCEPT !.total_pnl = pnl]

\* the local total_value at the return statement: assigned quantity x price first,
\* then assigned balance + portfolio_value
TotalValueAtReturn(state, trade_value) ==
    state.balance + calculate_portfolio_value(state.portfolio, state.stock_prices)

\* the returned dict, built from the session after the update
TradeResponse(user_id, order, state, execution_price, trade_value) ==
    LET total_value == TotalValueAtReturn(state, trade_value)
        pnl == total_value - state.initial_balance
    IN  [op |-> "execute_trade", user_id |-> user_id,
         trade |-> [symbol      |-> order.symbol,
                    action      |-> order.action,
                    quantity    |-> order.quantity,
                    price       |-> execution_price,
                    total_value |-> total_value],
         new_balance |-> state.balance,
         portfolio   |-> state.portfolio,
         total_value |-> total_value,
         pnl         |-> pnl]

\* history of the buys behind a holding: restarted when the holding disappears,
\* closed by a sell that leaves shares
BuyHistoryAfter(history, order, execution_price, state) ==
    IF order.action = "buy"
    THEN [history EXCEPT ![order.symbol].quantity = @ + order.quantity,
                         ![order.symbol].cost = @ + order.quantity * execution_price]
    ELSE IF order.symbol \in DOMAIN state.portfolio
    THEN [history EXCEPT ![order.symbol].only_buys = FALSE]
    ELSE [history EXCEPT ![order.symbol] = [quantity |-> 0, cost |-> 0, only_buys |-> TRUE]]

\* one call of the handler on the stores as they are: the detail raised ("ok" when it
\* returns), both stores as the call leaves them, and the dict returned, if any
TradeCall(user_id, order) ==
    IF user_id \notin DOMAIN simulator_db
    THEN [status |-> "Simulator not initialized", simulator_db |-> simulator_db,
          trades_db |-> trades_db, returned |-> None]
    ELSE
    LET state == simulator_db[user_id]
        done == Executed(state, order)
    IN  IF done.status # "ok"
        THEN \* an exception leaves the handler; the session object stays as it was left
             [status |-> done.status,
              simulator_db |-> [simulator_db EXCEPT ![user_id] = done.state],
              trades_db |-> trades_db, returned |-> None]
        ELSE
        LET execution_price == ExecutionPrice(order, state.stock_prices[order.symbol])
            total_value == execution_price * order.quantity
            after == Recorded(done.state)
        IN  [status |-> "ok",
             simulator_db |-> [simulator_db EXCEPT ![user_id] = after],
             trades_db |-> Append(trades_db,
                                  TradeExecution(user_id, order, execution_price, total_value)),
             returned |-> Some(TradeResponse(user_id, order, after, execution_price,
                                             total_value))]

execute_trade(user_id, order) ==
    LET call == TradeCall(user_id, order) IN
    /\ simulator_db' = call.simulator_db
    /\ trades_db' = call.trades_db
    /\ response' = IF call.returned = None THEN response ELSE call.returned[1]
    /\ buy_history' =
          IF call.status = "ok"
          THEN [buy_history EXCEPT ![user_id] =
                   BuyHistoryAfter(@, order, call.returned[1].trade.price,
                                   call.simulator_db[user_id])]
          ELSE buy_history
    /\ UNCHANGED <<ticks, now, init_mark, tasks>>

----------------------------------------------------------------------------
(* get_trade_history *)

\* [trade for trade in trades_db if trade.user_id == user_id]
RECURSIVE TradesOf(_, _)
TradesOf(trades, user_id) ==
    IF trades = << >> THEN << >>
    ELSE IF Head(trades).user_id = user_id
         THEN <<Head(trades)>> \o TradesOf(Tail(trades), user_id)
         ELSE TradesOf(Tail(trades), user_id)

\* trade put into a list already sorted newest first, behind every entry that is not
\* older than it: list.sort is stable, with reverse=True too
RECURSIVE InsertNewestFirst(_, _)
InsertNewestFirst(sorted, trade) ==
    IF sorted = << >> THEN <<trade>>
    ELSE IF Head(sorted).timestamp >= trade.timestamp
         THEN <<Head(sorted)>> \o InsertNewestFirst(Tail(sorted), trade)
         ELSE <<trade>> \o sorted

\* user_trades.sort(key=lambda x: x.timestamp, reverse=True)
RECURSIVE SortNewestFirst(_, _)
SortNewestFirst(sorted, trades) ==
    IF trades = << >> THEN sorted
    ELSE SortNewestFirst(InsertNewestFirst(sorted, Head(trades)), Tail(trades))

\* the slice xs[:limit]: a negative limit counts from the end of the list
Slice(xs, limit) ==
    LET stop == IF limit >= 0
                THEN (IF limit < Len(xs) THEN limit ELSE Len(xs))
                ELSE (IF Len(xs) + limit > 0 THEN Len(xs) + limit ELSE 0)
    IN  SubSeq(xs, 1, stop)

\* the returned dict; the handler does not look the user up in simulator_db
TradeHistory(user_id, limit) ==
    LET user_trades == SortNewestFirst(<< >>, TradesOf(trades_db, user_id))
    IN  [op |-> "get_trade_history", user_id |-> user_id, limit |-> limit,
         trades |-> Slice(user_trades, limit),
         total_trades |-> Len(user_trades)]

get_trade_history(user_id, limit) ==
    /\ response' = TradeHistory(user_id, limit)
    /\ UNCHANGED <<simulator_db, trades_db, buy_history, ticks, now, init_mark, tasks>>

----------------------------------------------------------------------------
(* update_stock_prices *)

\* a variant of the loop that drops the symbols whose price went down
Ticked_DropsFallen(stock_prices, change) ==
    [symbol \in {x \in DOMAIN stock_prices : change[x] >= 0} |->
        simulate_price_change(stock_prices[symbol], change[symbol])]

\* the loop over state.stock_prices, one sampled change per symbol
Ticked(stock_prices, change) ==
    [symbol \in DOMAIN stock_prices |->
        simulate_price_change(stock_prices[symbol], change[symbol])]

\* a variant in which the accounts share one price table, as they would had the
\* handler seeded them with one dict object
update_stock_prices_SharedTable(user_id) ==
    IF user_id \notin DOMAIN simulator_db
    THEN UNCHANGED vars
    ELSE /\ \E change \in [DOMAIN simulator_db[user_id].stock_prices -> Changes] :
              LET old_prices == simulator_db[user_id].stock_prices
                  new_prices == Ticked(old_prices, change)
              IN  /\ simulator_db' = [u \in DOMAIN simulator_db |->
                                         [simulator_db[u] EXCEPT !.stock_prices = new_prices]]
                  /\ response' = [op |-> "update_stock_prices", user_id |-> user_id,
                                  old_prices |-> old_prices,
                                  new_prices |-> new_prices]
         /\ ticks' = ticks + 1
         /\ UNCHANGED <<trades_db, buy_history, now, init_mark, tasks>>

update_stock_prices(user_id) ==
    IF user_id \notin DOMAIN simulator_db
    THEN \* raise HTTPException(404, "Simulator not initialized")
         UNCHANGED vars
    ELSE /\ \E change \in [DOMAIN simulator_db[user_id].stock_prices -> Changes] :
              LET old_prices == simulator_db[user_id].stock_prices
                  new_prices == Ticked(old_prices, change)
              IN  /\ simulator_db' = [simulator_db EXCEPT ![user_id].stock_prices = new_prices]
                  /\ response' = [op |-> "update_stock_prices", user_id |-> user_id,
                                  old_prices |-> old_prices,
                                  new_prices |-> new_prices]
         /\ ticks' = ticks + 1
         /\ UNCHANGED <<trades_db, buy_history, now, init_mark, tasks>>

----------------------------------------------------------------------------
(* The event loop *)

\* The requests sent at once for one user.  The application runs on one asyncio event
\* loop, which turns each request into a task running the handler's coroutine.
Requests ==
    [init    |-> [handler |-> "initialize_simulator", user_id |-> "u1",
                  level |-> "intermediate"],
     buy_a   |-> [handler |-> "execute_trade", user_id |-> "u1",
                  order |-> Order("AAPL", "buy", 20, <<"market", None>>)],
     buy_b   |-> [handler |-> "execute_trade", user_id |-> "u1",
                  order |-> Order("AAPL", "buy", 20, <<"market", None>>)],
     sell    |-> [handler |-> "execute_trade", user_id |-> "u1",
                  order |-> Order("AAPL", "sell", 20, <<"market", None>>)],
     tick    |-> [handler |-> "update_stock_prices", user_id |-> "u1"],
     state   |-> [handler |-> "get_simulator_state", user_id |-> "u1"],
     history |-> [handler |-> "get_trade_history", user_id |-> "u1", limit |-> 50]]

\* no task has run yet
NotStarted == [t \in DOMAIN Requests |-> [pc |-> "pending", locals |-> None, outcome |-> None]]

\* a variant with an await between the balance update and the holding update of
\* execute_trade
AtAwait_AfterBalanceUpdate(handler, pc) == handler = "execute_trade" /\ pc = "paid"

\* The statement the coroutine stands at is an await expression, where it hands the
\* loop to other tasks.  The five handlers are `async def` bodies without any await.
AtAwait(handler, pc) == FALSE

\* the coroutine of the task has run its first statement and not yet its last
MidWay(t) == tasks[t].pc \notin {"pending", "done"}

\* the loop runs a task when every task that has started is finished or stands at an await
Runnable(t) ==
    /\ tasks[t].pc # "done"
    /\ \A other \in DOMAIN Requests \ {t} :
          MidWay(other) => AtAwait(Requests[other].handler, tasks[other].pc)

Goto(t, pc, locals) == [tasks EXCEPT ![t] = [pc |-> pc, locals |-> Some(locals), outcome |-> None]]

Finish(t, outcome) == [tasks EXCEPT ![t] = [pc |-> "done", locals |-> None, outcome |-> Some(outcome)]]

\* initialize_simulator: the one store at its end is all it does to the shared state
initialize_task(t) ==
    LET user_id == Requests[t].user_id
        level == Requests[t].level
    IN  /\ Requests[t].handler = "initialize_simulator"
        /\ tasks[t].pc = "pending"
        /\ IF ~LevelRecognized(level)
           THEN /\ tasks' = Finish(t, "Invalid level")
                /\ UNCHANGED <<simulator_db, buy_history, init_mark, response>>
           ELSE /\ simulator_db' = Put(simulator_db, user_id, NewSimulatorState(user_id, level))
                /\ buy_history' = [buy_history EXCEPT ![user_id] = NoBuys]
                /\ init_mark' = [init_mark EXCEPT ![user_id] = Len(trades_db)]
                /\ response' = [op |-> "initialize_simulator", user_id |-> user_id,
                                level |-> level,
                                initial_balance |-> initial_balances[level],
                                available_stocks |-> STOCK_DATA[level],
                                stock_prices |-> SeedPrices(level)]
                /\ tasks' = Finish(t, "ok")
        /\ UNCHANGED <<trades_db, ticks, now>>

\* execute_trade, statement by statement: the checks, the balance update, the holding
\* update, the journal append, the counters and the return
trade_task(t) ==
    LET user_id == Requests[t].user_id
        order == Requests[t].order
        pc == tasks[t].pc
    IN  /\ Requests[t].handler = "execute_trade"
        /\ pc \in {"pending", "checked", "paid", "stored", "appended"}
        /\ IF pc = "pending"
           THEN \* lines 360-386, 404, 414: nothing is written
                LET status == TradeCall(user_id, order).status IN
                /\ tasks' = IF status \in {"ok", "ZeroDivisionError"}
                            THEN LET current_price ==
                                         simulator_db[user_id].stock_prices[order.symbol]
                                     execution_price == ExecutionPrice(order, current_price)
                                 IN  Goto(t, "checked",
                                          [execution_price |-> execution_price,
                                           total_value |-> execution_price * order.quantity])
                            ELSE Finish(t, status)
                /\ UNCHANGED <<simulator_db, trades_db, response, buy_history>>
           ELSE
           LET locals == tasks[t].locals[1]
               state == simulator_db[user_id]
           IN
           IF pc = "checked"
           THEN \* line 388 or line 407
                /\ simulator_db' =
                      [simulator_db EXCEPT ![user_id].balance =
                          IF order.action = "buy" THEN @ - locals.total_value
                                                  ELSE @ + locals.total_value]
                /\ tasks' = Goto(t, "paid", locals)
                /\ UNCHANGED <<trades_db, response, buy_history>>
           ELSE IF pc = "paid"
           THEN \* lines 389-401 or 408-412: the rest of the branch, the balance being done
                LET bought == ApplyBuy(state, order, locals.execution_price, 0) IN
                /\ simulator_db' =
                      [simulator_db EXCEPT ![user_id] =
                          IF order.action = "buy" THEN bought.state
                                                  ELSE ApplySell(state, order, 0)]
                /\ tasks' = IF order.action = "buy" /\ bought.status # "ok"
                            THEN Finish(t, bought.status)
                            ELSE Goto(t, "stored", locals)
                /\ UNCHANGED <<trades_db, response, buy_history>>
           ELSE IF pc = "stored"
           THEN \* lines 418-429
                /\ trades_db' = Append(trades_db,
                                       TradeExecution(user_id, order, locals.execution_price,
                                                      locals.total_value))
                /\ tasks' = Goto(t, "appended", locals)
                /\ UNCHANGED <<simulator_db, response, buy_history>>
           ELSE \* lines 432-454
                /\ simulator_db' = [simulator_db EXCEPT ![user_id] = Recorded(state)]
                /\ response' = TradeResponse(user_id, order, Recorded(state),
                                             locals.execution_price, locals.total_value)
                /\ buy_history' = [buy_history EXCEPT ![user_id] =
                                      BuyHistoryAfter(@, order, locals.execution_price, state)]
                /\ tasks' = Finish(t, "ok")
                /\ UNCHANGED trades_db
        /\ UNCHANGED <<ticks, now, init_mark>>

\* update_stock_prices: the copy of the old prices, one turn of the loop per symbol in
\* the order of the dict, the return
tick_task(t) ==
    LET user_id == Requests[t].user_id
        pc == tasks[t].pc
    IN  /\ Requests[t].handler = "update_stock_prices"
        /\ pc \in {"pending", "ticking"}
        /\ IF pc = "pending"
           THEN /\ tasks' =
                      IF user_id \notin DOMAIN simulator_db
                      THEN Finish(t, "Simulator not initialized")
                      ELSE Goto(t, "ticking",
                                [old_prices |-> simulator_db[user_id].stock_prices,
                                 remaining |->
                                     SelectSeq(SymbolList,
                                               LAMBDA symbol :
                                                   symbol \in DOMAIN simulator_db[user_id].stock_prices)])
                /\ UNCHANGED <<simulator_db, response, ticks>>
           ELSE LET locals == tasks[t].locals[1] IN
                IF locals.remaining # << >>
                THEN /\ \E change_bp \in Changes :
                          simulator_db' =
                              [simulator_db EXCEPT
                                  ![user_id].stock_prices[Head(locals.remaining)] =
                                      simulate_price_change(@, change_bp)]
                     /\ tasks' = Goto(t, "ticking",
                                      [locals EXCEPT !.remaining = Tail(@)])
                     /\ UNCHANGED <<response, ticks>>
                ELSE /\ response' = [op |-> "update_stock_prices", user_id |-> user_id,
                                     old_prices |-> locals.old_prices,
                                     new_prices |-> simulator_db[user_id].stock_prices]
                     /\ ticks' = ticks + 1
                     /\ tasks' = Finish(t, "ok")
                     /\ UNCHANGED simulator_db
        /\ UNCHANGED <<trades_db, buy_history, now, init_mark>>

\* get_simulator_state and get_trade_history: they read, build their dict and return
read_task(t) ==
    LET user_id == Requests[t].user_id IN
    /\ Requests[t].handler \in {"get_simulator_state", "get_trade_history"}
    /\ tasks[t].pc = "pending"
    /\ IF Requests[t].handler = "get_trade_history"
       THEN /\ response' = TradeHistory(user_id, Requests[t].limit)
            /\ tasks' = Finish(t, "ok")
       ELSE IF user_id \notin DOMAIN simulator_db
       THEN /\ tasks' = Finish(t, "Simulator not initialized")
            /\ UNCHANGED response
       ELSE /\ response' = [op |-> "get_simulator_state", user_id |-> user_id,
                            body |-> StateView(simulator_db[user_id])]
            /\ tasks' = Finish(t, "ok")
    /\ UNCHANGED <<simulator_db, trades_db, buy_history, ticks, now, init_mark>>

----------------------------------------------------------------------------
(* The program *)

Init ==
    /\ simulator_db = EmptyDict
    /\ trades_db = << >>
    /\ response = [op |-> "start"]
    /\ buy_history = [u \in Accounts |-> NoBuys]
    /\ ticks = 0
    /\ now = 0
    /\ init_mark = [u \in Accounts |-> 0]
    /\ tasks = NotStarted

\* the journal has room for the record this order would append
Recordable(user_id, order, max_trades) ==
    TradeCall(user_id, order).status = "ok" => Len(trades_db) < max_trades

Next ==
    \/ \E user_id \in Users, level \in LevelInputs : initialize_simulator(user_id, level)
    \/ \E user_id \in Users : get_simulator_state(user_id)
    \/ \E user_id \in Users, order \in TradeOrder :
          Recordable(user_id, order, MaxTrades) /\ execute_trade(user_id, order)
    \/ \E user_id \in Users : ticks < MaxTicks /\ update_stock_prices(user_id)

Spec == Init /\ [][Next]_vars

\* An intermediate account, whose price table holds both tracked symbols, sending
\* orders that fill: market orders and limit orders above the market, at seeded prices.
PairOrders ==
    { Order(s, a, q, k) : s \in TrackedSymbols, a \in {"buy", "sell"}, q \in {1, 2},
                          k \in {<<"market", None>>, <<"limit", Some(40000)>>} }

NextPair ==
    \/ \E user_id \in Users : initialize_simulator(user_id, "intermediate")
    \/ \E user_id \in Users : get_simulator_state(user_id)
    \/ \E user_id \in Users, order \in PairOrders :
          Recordable(user_id, order, MaxPairTrades) /\ execute_trade(user_id, order)

SpecPair == Init /\ [][NextPair]_vars

\* the wall clock moves on between two requests; it need not: two calls of
\* datetime.now() can read the same value on a clock of coarse resolution
time_passes ==
    /\ now' = now + 1
    /\ UNCHANGED <<simulator_db, trades_db, response, buy_history, ticks, init_mark, tasks>>

\* One account initialized again and again at every level, sending market orders of
\* one share in between.
AccountLevelInputs == {"beginner", "intermediate", "advanced", "expert"}

AccountOrders ==
    { Order(s, a, 1, <<"market", None>>) : s \in TrackedSymbols, a \in {"buy", "sell"} }

NextLevels ==
    \/ \E user_id \in Users, level \in AccountLevelInputs :
          initialize_simulator(user_id, level)
    \/ \E user_id \in Users : get_simulator_state(user_id)
    \/ \E user_id \in Users, order \in AccountOrders :
          Recordable(user_id, order, MaxTrades) /\ execute_trade(user_id, order)

SpecLevels == Init /\ [][NextLevels]_vars

\* Two beginner accounts side by side, sending market orders of one share and ticking
\* their prices.
NextAccounts ==
    \/ \E user_id \in Accounts : initialize_simulator(user_id, "beginner")
    \/ \E user_id \in Accounts : get_simulator_state(user_id)
    \/ \E user_id \in Accounts, order \in AccountOrders :
          Recordable(user_id, order, MaxTrades) /\ execute_trade(user_id, order)
    \/ \E user_id \in Accounts : ticks < MaxTicks /\ update_stock_prices(user_id)

SpecAccounts == Init /\ [][NextAccounts]_vars

\* Two beginner accounts buying one share at a time and asking for their trade
\* history, while the clock runs.
HistoryOrders == { Order("AAPL", "buy", 1, <<"market", None>>) }

NextHistory ==
    \/ \E user_id \in Accounts : initialize_simulator(user_id, "beginner")
    \/ \E user_id \in Accounts, order \in HistoryOrders :
          Recordable(user_id, order, MaxHistoryTrades) /\ execute_trade(user_id, order)
    \/ \E user_id \in Accounts, limit \in Limits : get_trade_history(user_id, limit)
    \/ now < MaxClock /\ time_passes

SpecHistory == Init /\ [][NextHistory]_vars

\* A beginner account whose prices have been ticked for long.  Each tick can take a
\* price p to any cent value between 0.98 p and 1.02 p, rounded, so from the seeded
\* 175.50 every value down to 0.24 is within reach: 0.25 falls to 0.24 (0.245 rounds
\* there), and 0.24 falls no further (0.2352 rounds to 0.24).
WalkPrices == (LowestPrice..(LowestPrice + PriceSpan)) \cup {INITIAL_PRICES["AAPL"]}

InitWalk ==
    /\ \E price \in WalkPrices :
          simulator_db =
              [user_id \in Users |->
                  [NewSimulatorState(user_id, "beginner") EXCEPT !.stock_prices["AAPL"] = price]]
    /\ trades_db = << >>
    /\ response = [op |-> "start"]
    /\ buy_history = [u \in Accounts |-> NoBuys]
    /\ ticks = 0
    /\ now = 0
    /\ init_mark = [u \in Accounts |-> 0]
    /\ tasks = NotStarted

NextWalk ==
    \/ \E user_id \in Users : get_simulator_state(user_id)
    \/ \E user_id \in Users : ticks < MaxTicks /\ update_stock_prices(user_id)

SpecWalk == InitWalk /\ [][NextWalk]_vars

\* The requests above served by the event loop, the handlers run statement by statement.
NextLoop ==
    \/ \E t \in DOMAIN Requests : Runnable(t) /\ initialize_task(t)
    \/ \E t \in DOMAIN Requests : Runnable(t) /\ trade_task(t)
    \/ \E t \in DOMAIN Requests : Runnable(t) /\ tick_task(t)
    \/ \E t \in DOMAIN Requests : Runnable(t) /\ read_task(t)

SpecLoop == Init /\ [][NextLoop]_vars

----------------------------------------------------------------------------
(* Vocabulary of the properties, stated apart from the handler's own steps *)

Sessions == DOMAIN simulator_db

\* every order either specification sends
Orders == TradeOrder \cup PairOrders \cup AccountOrders \cup HistoryOrders

\* the account-side stores a failed order must not touch
Untouched(call) ==
    /\ call.simulator_db = simulator_db
    /\ call.trades_db = trades_db

\* the order gets as far as the balance / shares check: the account exists, the symbol
\* is priced, and a limit order names a limit the market price satisfies
Priced(user_id, order) ==
    /\ user_id \in Sessions
    /\ order.symbol \in DOMAIN simulator_db[user_id].stock_prices

MarketPrice(user_id, order) == simulator_db[user_id].stock_prices[order.symbol]

LimitGiven(order) == order.order_type = "limit" /\ Len(order.limit_price) = 1

\* buy needs market <= limit, sell needs market >= limit
Favorable(user_id, order) ==
    /\ LimitGiven(order)
    /\ \/ order.action = "buy" /\ MarketPrice(user_id, order) <= order.limit_price[1]
       \/ order.action = "sell" /\ MarketPrice(user_id, order) >= order.limit_price[1]

HasFillPrice(user_id, order) ==
    /\ Priced(user_id, order)
    /\ order.order_type = "market" \/ Favorable(user_id, order)

\* the fill price: the limit price of a favorable limit order, else the market price
FillPrice(user_id, order) ==
    IF order.order_type = "limit" THEN order.limit_price[1] ELSE MarketPrice(user_id, order)

Held(user_id, symbol) ==
    IF symbol \in DOMAIN simulator_db[user_id].portfolio
    THEN simulator_db[user_id].portfolio[symbol].shares
    ELSE 0

\* sum over the holdings of shares x current price, symbol by symbol
RECURSIVE MarketValue(_, _, _)
MarketValue(remaining, portfolio, prices) ==
    IF remaining = << >> THEN 0
    ELSE (IF Head(remaining) \in DOMAIN portfolio /\ Head(remaining) \in DOMAIN prices
             THEN portfolio[Head(remaining)].shares * prices[Head(remaining)]
             ELSE 0)
         + MarketValue(Tail(remaining), portfolio, prices)

----------------------------------------------------------------------------
(* C1 *)

\* C1 (as stated): every execute_trade call that ends in a failure, whatever the
\* order's fields, leaves the session (balance, holdings, trade count, prices) and
\* the journal exactly as they were.
C1_FailedOrderChangesNothing ==
    [][ \A user_id \in Users, order \in TradeOrder :
            (TradeCall(user_id, order).status # "ok" /\ execute_trade(user_id, order))
            => UNCHANGED <<simulator_db, trades_db>> ]_vars

----------------------------------------------------------------------------
(* C2 *)

\* C2 (as stated): in every reachable state every account's cash balance is >= 0.
\* (In this model a balance only ever changes by quantity x price of an order that
\* is executed, so quantity 0 orders cannot be what moves it.)
C2_BalanceNeverNegative ==
    \A user_id \in Sessions : simulator_db[user_id].balance >= 0

----------------------------------------------------------------------------
(* C3 *)

\* C3: a buy whose cost, quantity x fill price, exceeds the account's balance fails
\* with "Insufficient balance", and session and journal are as before the call.
C3_CostlyBuyRefused ==
    \A user_id \in Users, order \in TradeOrder :
        ( /\ order.action = "buy"
          /\ HasFillPrice(user_id, order)
          /\ order.quantity * FillPrice(user_id, order) > simulator_db[user_id].balance )
        => LET call == TradeCall(user_id, order)
           IN  call.status = "Insufficient balance" /\ Untouched(call)

\* an account that has traded and for which some buy on offer costs more than it has
C3_Witness ==
    \E user_id \in Sessions, order \in TradeOrder :
        /\ simulator_db[user_id].trade_count >= 1
        /\ order.action = "buy"
        /\ order.order_type = "limit"
        /\ HasFillPrice(user_id, order)
        /\ order.quantity * FillPrice(user_id, order) > simulator_db[user_id].balance
        /\ TradeCall(user_id, order).status = "Insufficient balance"

----------------------------------------------------------------------------
(* C4 *)

NotEnoughShares(user_id, order) == Held(user_id, order.symbol) < order.quantity \/
                                   order.symbol \notin DOMAIN simulator_db[user_id].portfolio

SellsAllHeld(user_id, order) ==
    /\ order.symbol \in DOMAIN simulator_db[user_id].portfolio
    /\ order.quantity = Held(user_id, order.symbol)

\* what C4 promises of one sell call
C4_Promise(user_id, order) ==
    LET call == TradeCall(user_id, order)
    IN  /\ NotEnoughShares(user_id, order)
           => call.status = "Insufficient shares" /\ Untouched(call)
        /\ SellsAllHeld(user_id, order)
           => /\ call.status = "ok"
              /\ order.symbol \notin DOMAIN call.simulator_db[user_id].portfolio

\* C4 (as stated): a sell for a symbol not held, or for more shares than held, always
\* fails with "Insufficient shares" and changes nothing; a sell for exactly the shares
\* held succeeds and removes the symbol from the holdings.
C4_AnySell ==
    \A user_id \in Sessions, order \in TradeOrder :
        order.action = "sell" => C4_Promise(user_id, order)

\* C4 (amended): the same, for a sell that reaches the shares check: its symbol is in
\* the account's price table and, if it is a limit order, its limit price is given and
\* is not above the market price.
C4_SellReachingSharesCheck ==
    \A user_id \in Sessions, order \in TradeOrder :
        (order.action = "sell" /\ HasFillPrice(user_id, order))
        => C4_Promise(user_id, order)

\* the last call sold every share held: its symbol has left the holdings, while some
\* larger sell on offer would be refused
C4_Witness ==
    /\ response.op = "execute_trade"
    /\ response.trade.action = "sell"
    /\ response.trade.quantity >= 1
    /\ response.trade.symbol \notin DOMAIN response.portfolio
    /\ response.portfolio = simulator_db[response.user_id].portfolio
    /\ \E order \in TradeOrder :
          /\ order.action = "sell"
          /\ HasFillPrice(response.user_id, order)
          /\ NotEnoughShares(response.user_id, order)
          /\ TradeCall(response.user_id, order).status = "Insufficient shares"

----------------------------------------------------------------------------
(* C5 *)

\* C5 (as stated): no holding with share count 0 or less exists: every symbol in a
\* holdings mapping has shares >= 1, whatever orders were sent, failed ones included.
C5_NoEmptyHolding ==
    \A user_id \in Sessions :
        \A symbol \in DOMAIN simulator_db[user_id].portfolio :
            simulator_db[user_id].portfolio[symbol].shares >= 1

----------------------------------------------------------------------------
(* C6 *)

\* balance / shares suffice for the order at its fill price
Affordable(user_id, order) ==
    IF order.action = "buy"
    THEN order.quantity * FillPrice(user_id, order) <= simulator_db[user_id].balance
    ELSE /\ order.symbol \in DOMAIN simulator_db[user_id].portfolio
         /\ order.quantity <= Held(user_id, order.symbol)

FilledAt(call, price) ==
    /\ call.status = "ok"
    /\ call.returned[1].trade.price = price
    /\ call.trades_db[Len(call.trades_db)].price = price

\* C6: for a buy or sell of a positive quantity on a priced symbol: a limit order whose
\* limit the market price does not satisfy (buy: market > limit, sell: market < limit)
\* fails with "Market price not favorable for limit order"; one it satisfies fills,
\* when balance / shares suffice, at the limit price; a market order fills, when
\* balance / shares suffice, at the current market price.
C6_LimitAndMarketFills ==
    \A user_id \in Sessions, order \in TradeOrder :
        ( /\ order.action \in {"buy", "sell"}
          /\ order.quantity >= 1
          /\ Priced(user_id, order) )
        => LET call == TradeCall(user_id, order)
           IN  /\ (LimitGiven(order) /\ ~Favorable(user_id, order))
                  => call.status = "Market price not favorable for limit order"
               /\ (LimitGiven(order) /\ Favorable(user_id, order) /\ Affordable(user_id, order))
                  => FilledAt(call, order.limit_price[1])
               /\ (LimitGiven(order) /\ call.status = "ok") => Favorable(user_id, order)
               /\ (order.order_type = "market" /\ Affordable(user_id, order))
                  => FilledAt(call, MarketPrice(user_id, order))

\* the last call filled a limit order at a limit price that differs from the market price
C6_Witness ==
    /\ response.op = "execute_trade"
    /\ trades_db # << >>
    /\ trades_db[Len(trades_db)].order_type = "limit"
    /\ trades_db[Len(trades_db)].price = response.trade.price
    /\ response.trade.price # simulator_db[response.user_id].stock_prices[response.trade.symbol]
    /\ \E order \in TradeOrder :
          /\ order.quantity >= 1
          /\ LimitGiven(order)
          /\ Priced(response.user_id, order)
          /\ ~Favorable(response.user_id, order)

----------------------------------------------------------------------------
(* C7 *)

\* C7: a holding built by successful buys only, starting from no holding, has as
\* share count the sum of the quantities bought and as average cost the weighted
\* average sum(quantity x fill price) / sum(quantity), as exact fractions.
C7_WeightedAverage ==
    \A user_id \in Sessions :
        \A symbol \in DOMAIN simulator_db[user_id].portfolio :
            LET holding == simulator_db[user_id].portfolio[symbol]
                bought == buy_history[user_id][symbol]
            IN  (bought.only_buys /\ bought.quantity > 0)
                => /\ holding.shares = bought.quantity
                   /\ holding.avg_price[1] * bought.quantity
                        = bought.cost * holding.avg_price[2]

\* two buys at different fill prices and with different quantities behind one holding:
\* the average is neither fill price, and is not a whole number of cents
C7_Witness ==
    \E user_id \in Sessions :
        \E symbol \in DOMAIN simulator_db[user_id].portfolio :
            /\ buy_history[user_id][symbol].only_buys
            /\ buy_history[user_id][symbol].quantity = 3
            /\ simulator_db[user_id].trade_count = 2
            /\ simulator_db[user_id].portfolio[symbol].avg_price[2] = 3

----------------------------------------------------------------------------
(* C8 *)

\* C8: a successful sell that leaves shares of its symbol changes, in the holdings,
\* the share count of that one holding and nothing else: its average cost basis and
\* every other holding are as before.
C8_SellKeepsAverage ==
    \A user_id \in Sessions, order \in Orders :
        LET call == TradeCall(user_id, order)
            before == simulator_db[user_id].portfolio
        IN  ( /\ order.action = "sell"
              /\ call.status = "ok"
              /\ order.symbol \in DOMAIN call.simulator_db[user_id].portfolio )
            => LET after == call.simulator_db[user_id].portfolio
               IN  /\ DOMAIN after = DOMAIN before
                   /\ \A symbol \in DOMAIN after :
                         /\ after[symbol].avg_price = before[symbol].avg_price
                         /\ after[symbol].shares =
                               IF symbol = order.symbol
                               THEN before[symbol].shares - order.quantity
                               ELSE before[symbol].shares

\* the last call sold one share of a holding of two, bought at another price than the
\* sale's, while the account holds a second symbol
C8_Witness ==
    /\ response.op = "execute_trade"
    /\ response.trade.action = "sell"
    /\ response.trade.quantity = 1
    /\ response.trade.symbol \in DOMAIN response.portfolio
    /\ response.portfolio[response.trade.symbol].shares = 1
    /\ response.portfolio[response.trade.symbol].avg_price # <<response.trade.price, 1>>
    /\ DOMAIN response.portfolio = {"AAPL", "META"}

----------------------------------------------------------------------------
(* C9 *)

Consistent(total_value, pnl, state) ==
    /\ total_value = state.balance
                     + MarketValue(SymbolList, state.portfolio, state.stock_prices)
    /\ pnl = total_value - state.initial_balance

\* C9: the dict execute_trade returns on success, and the dict get_simulator_state
\* returns, report total_value = balance + sum over holdings of shares x current price
\* and pnl = total_value - initial_balance, on the session as it is at that moment.
C9_TotalsAndPnl ==
    /\ \A user_id \in Sessions :
          LET view == StateView(simulator_db[user_id])
          IN  /\ Consistent(view.total_value, view.pnl, simulator_db[user_id])
              /\ view.portfolio_value
                   = MarketValue(SymbolList, view.portfolio, view.stock_prices)
    /\ \A user_id \in Sessions, order \in TradeOrder :
          LET call == TradeCall(user_id, order)
          IN  call.status = "ok"
              => Consistent(call.returned[1].total_value, call.returned[1].pnl,
                            call.simulator_db[user_id])

\* the last call was a trade that left a holding whose price has since moved or whose
\* fill was off the market price, so that pnl is not 0
C9_Witness ==
    /\ response.op = "execute_trade"
    /\ response.portfolio # EmptyDict
    /\ response.pnl # 0
    /\ response.total_value # response.new_balance

----------------------------------------------------------------------------
(* C10 *)

\* C10 (as stated): on success the total value reported for the trade in the returned
\* dict is quantity x fill price, the total value of the record appended to the journal.
C10_ReportedTradeValue ==
    \A user_id \in Sessions, order \in TradeOrder :
        LET call == TradeCall(user_id, order)
        IN  call.status = "ok"
            => /\ call.returned[1].trade.total_value
                    = order.quantity * call.returned[1].trade.price
               /\ call.returned[1].trade.total_value
                    = call.trades_db[Len(call.trades_db)].total_value

----------------------------------------------------------------------------
(* C11 *)

\* the seed of each level, in cents
LevelSeed(level) ==
    CASE level = "beginner"     -> 200000
      [] level = "intermediate" -> 500000
      [] level = "advanced"     -> 1000000

\* the price table a level starts from: its symbols at the global initial prices
SeededTable(level) == [symbol \in STOCK_DATA[level] |-> INITIAL_PRICES[symbol]]

\* the session is a fresh one of the level
FreshSession(state, level) ==
    /\ state.level = level
    /\ state.balance = LevelSeed(level)
    /\ state.initial_balance = LevelSeed(level)
    /\ state.portfolio = EmptyDict
    /\ state.stock_prices = SeededTable(level)
    /\ state.trade_count = 0

\* C11: initializing a user who has a session replaces it: afterwards the balance is
\* the new level's seed, the holdings are empty, the price table is the new level's
\* seeded table and the trade count is 0, while the journal, every record of that user
\* included, is as it was before.
C11_ReinitReplacesSession ==
    [][ \A user_id \in Users, level \in Levels :
            (user_id \in DOMAIN simulator_db /\ initialize_simulator(user_id, level))
            => /\ FreshSession(simulator_db'[user_id], level)
               /\ trades_db' = trades_db
               /\ TradesOf(trades_db', user_id) = TradesOf(trades_db, user_id) ]_vars

\* an account that traded META, which no beginner can, was initialized again as a
\* beginner: its history counts more trades than its session
C11_Witness ==
    /\ response.op = "initialize_simulator"
    /\ response.level = "beginner"
    /\ \E i \in 1..Len(trades_db) :
          trades_db[i].user_id = response.user_id /\ trades_db[i].symbol = "META"
    /\ FreshSession(simulator_db[response.user_id], "beginner")
    /\ TradeHistory(response.user_id, 50).total_trades
          > simulator_db[response.user_id].trade_count

----------------------------------------------------------------------------
(* C13 *)

\* C13: initialize with a recognized level leaves a session whose balance and initial
\* balance are the level's seed (2000, 5000, 10000), whose price table holds exactly
\* the level's symbols at the global initial prices, whose holdings are empty and whose
\* trade count is 0; initialize with any other level returns nothing and leaves the
\* sessions, an existing one of that user included, and the journal unchanged.
C13_InitializeByLevel ==
    [][ \A user_id \in Users, level \in AccountLevelInputs :
            initialize_simulator(user_id, level)
            => IF level \in {"beginner", "intermediate", "advanced"}
               THEN /\ FreshSession(simulator_db'[user_id], level)
                    /\ DOMAIN simulator_db'[user_id].stock_prices = STOCK_DATA[level]
                    /\ response'.op = "initialize_simulator"
                    /\ response'.initial_balance = LevelSeed(level)
               ELSE /\ simulator_db' = simulator_db
                    /\ trades_db' = trades_db
                    /\ response' = response ]_vars

\* an advanced account was created: 10000 to spend, both tracked symbols priced
C13_Witness ==
    /\ response.op = "initialize_simulator"
    /\ response.level = "advanced"
    /\ simulator_db[response.user_id].balance = 1000000
    /\ simulator_db[response.user_id].stock_prices = [AAPL |-> 17550, META |-> 32540]

----------------------------------------------------------------------------
(* C12 *)

\* positions of the journal that hold a record of the user
RecordsOf(user_id) == {i \in 1..Len(trades_db) : trades_db[i].user_id = user_id}

\* how many of the user's records are newer than the timestamp
NewerThan(user_id, timestamp) ==
    Cardinality({i \in RecordsOf(user_id) : trades_db[i].timestamp > timestamp})

\* C12 (as stated): get_trade_history(user, limit) returns only records of that user
\* taken from the journal, each with a timestamp strictly below the one before it, at
\* most `limit` of them and the most recent ones, and total_trades is the number of all
\* journal records of that user, whatever the limit.
C12_HistoryNewestFirst ==
    \A user_id \in Accounts, limit \in Limits :
        LET history == TradeHistory(user_id, limit)
            trades == history.trades
        IN  /\ \A i \in 1..Len(trades) :
                  /\ trades[i].user_id = user_id
                  /\ \E j \in RecordsOf(user_id) : trades_db[j] = trades[i]
                  /\ NewerThan(user_id, trades[i].timestamp) <= i - 1
            /\ \A i \in 1..Len(trades) : \A j \in 1..Len(trades) :
                  i < j => trades[i].timestamp > trades[j].timestamp
            /\ Len(trades) <= limit
            /\ history.total_trades = Cardinality(RecordsOf(user_id))

----------------------------------------------------------------------------
(* C14 *)

\* the trade counts of the sessions that exist before and after the step are the same,
\* but for the users named
CountsKeptBut(users) ==
    \A other \in (DOMAIN simulator_db \cap DOMAIN simulator_db') \ users :
        simulator_db'[other].trade_count = simulator_db[other].trade_count

\* what one execute_trade call does to the journal and to the trade counts
CountedCall(user_id, order) ==
    LET call == TradeCall(user_id, order) IN
    IF call.status = "ok"
    THEN /\ Len(call.trades_db) = Len(trades_db) + 1
         /\ SubSeq(call.trades_db, 1, Len(trades_db)) = trades_db
         /\ call.trades_db[Len(call.trades_db)].user_id = user_id
         /\ \A other \in DOMAIN call.simulator_db :
               call.simulator_db[other].trade_count
                 = simulator_db[other].trade_count + (IF other = user_id THEN 1 ELSE 0)
    ELSE /\ call.trades_db = trades_db
         /\ \A other \in DOMAIN call.simulator_db :
               call.simulator_db[other].trade_count = simulator_db[other].trade_count

\* the user's journal records appended since the account's latest initialization
RecordsSinceInit(user_id) == {i \in RecordsOf(user_id) : i > init_mark[user_id]}

\* trade count = number of the user's journal records since the latest initialization
CountMatchesJournal ==
    \A user_id \in Sessions :
        simulator_db[user_id].trade_count = Cardinality(RecordsSinceInit(user_id))

\* what every other operation does to them
CountedStep ==
    /\ \A user_id \in Accounts :
          (get_simulator_state(user_id) \/ update_stock_prices(user_id))
          => trades_db' = trades_db /\ CountsKeptBut({})
    /\ \A user_id \in Accounts, limit \in Limits :
          get_trade_history(user_id, limit)
          => trades_db' = trades_db /\ CountsKeptBut({})
    /\ \A user_id \in Accounts, level \in AccountLevelInputs :
          initialize_simulator(user_id, level)
          => trades_db' = trades_db /\ CountsKeptBut({user_id})

\* C14: a successful execute_trade appends exactly one record, of its user, to the
\* journal and adds exactly 1 to that account's trade count; a failed one, a state or
\* history read and a price tick change neither, and an initialization leaves the
\* journal and starts its own account's count again; so in every reachable state an
\* account's trade count is the number of journal records of its user appended since
\* the account's latest initialization.
C14_TradeCountMatchesJournal ==
    /\ [](\A user_id \in Accounts, order \in Orders : CountedCall(user_id, order))
    /\ [][CountedStep]_vars
    /\ []CountMatchesJournal

\* an account traded, was initialized again and traded once more: one of its two
\* journal records counts
C14_Witness ==
    \E user_id \in Sessions :
        /\ init_mark[user_id] = 1
        /\ Cardinality(RecordsOf(user_id)) = 2
        /\ simulator_db[user_id].trade_count = 1
        /\ response.op = "execute_trade"

----------------------------------------------------------------------------
(* C15 *)

\* everything of a session but its price values and the running P&L stored with it
Account(state) ==
    [level |-> state.level, balance |-> state.balance,
     initial_balance |-> state.initial_balance, portfolio |-> state.portfolio,
     trade_count |-> state.trade_count, symbols |-> DOMAIN state.stock_prices]

\* what an execute_trade call, whatever its outcome, does to the price table
PricesKeptByCall ==
    \A user_id \in Sessions, order \in TradeOrder :
        TradeCall(user_id, order).simulator_db[user_id].stock_prices
          = simulator_db[user_id].stock_prices

\* what update_stock_prices does around the price values
PriceTableStep ==
    \A user_id \in Users :
        (user_id \in Sessions /\ update_stock_prices(user_id))
        => /\ Account(simulator_db'[user_id]) = Account(simulator_db[user_id])
           /\ trades_db' = trades_db

\* C15: execute_trade, successful or failed, leaves the account's whole price table
\* unchanged; update_stock_prices changes price values only: the set of symbols priced,
\* balance, initial balance, level, holdings, trade count and journal stay as they were.
C15_PriceTableFrame ==
    []PricesKeptByCall /\ [][PriceTableStep]_vars

\* the last call ticked the prices of an account that holds shares: a price moved
C15_Witness ==
    /\ response.op = "update_stock_prices"
    /\ response.old_prices # response.new_prices
    /\ simulator_db[response.user_id].stock_prices = response.new_prices
    /\ simulator_db[response.user_id].portfolio # EmptyDict
    /\ trades_db # << >>

----------------------------------------------------------------------------
(* C16 *)

\* The checks of an order in the order they are to be reported, each with the detail
\* it fails with and whether the order violates it; a check that cannot be evaluated
\* (no account, no price, no limit price to compare) counts as not violated.  The price,
\* balance and shares checks are those of a buy or a sell, so an action that is neither
\* violates the last check only.
Checks(user_id, order) ==
    LET known == user_id \in Sessions
        priced == known /\ order.symbol \in DOMAIN simulator_db[user_id].stock_prices
        limited == order.order_type = "limit"
        fill == priced /\ (limited => Len(order.limit_price) = 1)
    IN  << <<"Simulator not initialized", ~known>>,
           <<"Stock not available", known /\ ~priced>>,
           <<"Limit price required for limit orders", limited /\ order.limit_price = << >> >>,
           <<"Market price not favorable for limit order",
             limited /\ fill /\ order.action \in {"buy", "sell"}
                     /\ ~Favorable(user_id, order)>>,
           <<"Insufficient balance",
             fill /\ order.action = "buy"
                  /\ order.quantity * FillPrice(user_id, order) > simulator_db[user_id].balance>>,
           <<"Insufficient shares",
             known /\ order.action = "sell" /\ NotEnoughShares(user_id, order)>>,
           <<"Invalid action", order.action \notin {"buy", "sell"}>> >>

Violated(user_id, order) ==
    LET checks == Checks(user_id, order)
    IN  {i \in 1..Len(checks) : checks[i][2]}

\* the earliest of a non-empty set of checks
Earliest(violated) == CHOOSE i \in violated : \A j \in violated : i <= j

\* C16: an order that violates one or several checks fails with the detail of the
\* earliest one in the order: account not initialized, symbol not priced, limit price
\* missing, then price not favorable, then insufficient balance (buy) or shares (sell);
\* an action that is neither buy nor sell is reported when none of the first three fails.
C16_EarliestCheckReported ==
    \A user_id \in Users, order \in TradeOrder :
        LET checks == Checks(user_id, order)
            violated == {i \in 1..Len(checks) : checks[i][2]}
        IN  violated # {}
            => TradeCall(user_id, order).status = checks[Earliest(violated)][1]

\* an account that has traded is offered an order violating two checks that are not
\* the first two, and orders violating three
C16_Witness ==
    \E user_id \in Sessions :
        /\ simulator_db[user_id].trade_count >= 1
        /\ \E order \in TradeOrder :
              /\ Violated(user_id, order) = {4, 6}
              /\ TradeCall(user_id, order).status = "Market price not favorable for limit order"
        /\ \E order \in TradeOrder :
              /\ Cardinality(Violated(user_id, order)) >= 3
              /\ TradeCall(user_id, order).status = "Stock not available"

----------------------------------------------------------------------------
(* C17 *)

AllPricesPositive ==
    \A user_id \in Sessions :
        \A symbol \in DOMAIN simulator_db[user_id].stock_prices :
            simulator_db[user_id].stock_prices[symbol] >= 1

\* new is old x (1 + c), for some c between -2% and +2%, rounded to the cent: it lies
\* within half a cent of the interval from 0.98 old to 1.02 old
WithinTwoPercent(old, new) ==
    /\ 100 * new >= 98 * old - 50
    /\ 100 * new <= 102 * old + 50

TickStep ==
    \A user_id \in Users :
        (user_id \in Sessions /\ update_stock_prices(user_id))
        => \A symbol \in DOMAIN simulator_db[user_id].stock_prices :
              WithinTwoPercent(simulator_db[user_id].stock_prices[symbol],
                               simulator_db'[user_id].stock_prices[symbol])

\* C17: every price of every account's price table is strictly positive (at least one
\* cent), however long the prices have been ticked, and each tick takes each price to
\* a value within -2%..+2% of the one before, rounded to the cent.
C17_PricesStayPositive ==
    []AllPricesPositive /\ [][TickStep]_vars

\* the last call ticked a price of 0.25 down to 0.24
C17_Witness ==
    /\ response.op = "update_stock_prices"
    /\ response.old_prices["AAPL"] = 25
    /\ response.new_prices["AAPL"] = 24
    /\ simulator_db[response.user_id].stock_prices["AAPL"] = 24

----------------------------------------------------------------------------
(* C18 *)

\* every account but the user's is as before the step: there or not there, its whole
\* session, and its records in the journal
OthersKept(user_id) ==
    \A other \in Accounts \ {user_id} :
        /\ other \in DOMAIN simulator_db' <=> other \in DOMAIN simulator_db
        /\ other \in DOMAIN simulator_db => simulator_db'[other] = simulator_db[other]
        /\ TradesOf(trades_db', other) = TradesOf(trades_db, other)

\* the same of what one execute_trade call, whatever its outcome, leaves behind
OthersKeptByCall(user_id, order) ==
    LET call == TradeCall(user_id, order) IN
    \A other \in Accounts \ {user_id} :
        /\ other \in DOMAIN call.simulator_db <=> other \in DOMAIN simulator_db
        /\ other \in DOMAIN simulator_db => call.simulator_db[other] = simulator_db[other]
        /\ TradesOf(call.trades_db, other) = TradesOf(trades_db, other)

OwnAccountStep ==
    /\ \A user_id \in Accounts, level \in AccountLevelInputs :
          initialize_simulator(user_id, level) => OthersKept(user_id)
    /\ \A user_id \in Accounts :
          update_stock_prices(user_id) => OthersKept(user_id)

\* C18: initialize_simulator, execute_trade and update_stock_prices on one user id
\* leave every other user's session (balance, holdings, price table, trade count) and
\* journal records unchanged; accounts of one level share neither price table nor
\* holdings.
C18_AccountsAreSeparate ==
    /\ [](\A user_id \in Accounts, order \in Orders : OthersKeptByCall(user_id, order))
    /\ [][OwnAccountStep]_vars

\* two accounts of one level, after one of them has bought and has had its prices
\* ticked: the other still has the seeded prices and holds nothing
C18_Witness ==
    /\ Sessions = {"u1", "u2"}
    /\ simulator_db["u1"].level = simulator_db["u2"].level
    /\ simulator_db["u1"].portfolio # EmptyDict
    /\ simulator_db["u2"].portfolio = EmptyDict
    /\ simulator_db["u1"].stock_prices # simulator_db["u2"].stock_prices
    /\ simulator_db["u2"].stock_prices = SeededTable("beginner")
    /\ simulator_db["u2"].balance = LevelSeed("beginner")

----------------------------------------------------------------------------
(* C20 *)

\* cash paid out less cash taken in by the user's journal records at the positions
\* from `first` on: total values of the buys minus total values of the sells
RECURSIVE NetPaid(_, _)
NetPaid(user_id, first) ==
    IF first > Len(trades_db) THEN 0
    ELSE (IF trades_db[first].user_id # user_id THEN 0
          ELSE IF trades_db[first].action = "buy" THEN trades_db[first].total_value
          ELSE IF trades_db[first].action = "sell" THEN 0 - trades_db[first].total_value
          ELSE 0)
         + NetPaid(user_id, first + 1)

CashConserved ==
    \A user_id \in Sessions :
        simulator_db[user_id].balance
          = simulator_db[user_id].initial_balance - NetPaid(user_id, init_mark[user_id] + 1)

BaselineStep ==
    \A user_id \in Accounts :
        ( /\ user_id \in Sessions
          /\ \/ \E order \in Orders : execute_trade(user_id, order)
             \/ update_stock_prices(user_id) )
        => /\ simulator_db'[user_id].initial_balance = simulator_db[user_id].initial_balance
           /\ simulator_db'[user_id].level = simulator_db[user_id].level

----------------------------------------------------------------------------
(* C19 *)

\* no mutation is partially applied: no task stands between its first and its last
\* statement, every balance is accounted for by the journal and every trade count too
NothingHalfDone ==
    /\ \A t \in DOMAIN Requests : ~MidWay(t)
    /\ CashConserved
    /\ CountMatchesJournal

\* a get_simulator_state or get_trade_history request is served in this step
ReadServed ==
    \E t \in DOMAIN Requests :
        /\ Requests[t].handler \in {"get_simulator_state", "get_trade_history"}
        /\ tasks[t].pc = "pending"
        /\ tasks'[t].pc = "done"

\* two buys have both passed the balance check and neither has debited yet
BothPassedOnOneBalance ==
    \E a \in DOMAIN Requests, b \in DOMAIN Requests :
        /\ a # b
        /\ Requests[a].handler = "execute_trade" /\ Requests[b].handler = "execute_trade"
        /\ Requests[a].order.action = "buy" /\ Requests[b].order.action = "buy"
        /\ tasks[a].pc = "checked" /\ tasks[b].pc = "checked"

\* C19: with initialize_simulator, execute_trade and update_stock_prices requests of
\* one user in flight together with get_simulator_state and get_trade_history requests,
\* a read is served only when no mutation is partially applied (no balance changed
\* without its holding change and journal record, no price table ticked in part), and
\* two buys never both pass the balance check on the same, not yet debited, balance.
C19_ReadsSeeWholeMutations ==
    [][ReadServed => NothingHalfDone]_vars /\ []~BothPassedOnOneBalance

\* all seven requests were served: of the two buys, which together cost more than the
\* account had, one was filled and one refused, and the prices were ticked
C19_Witness ==
    /\ \A t \in DOMAIN Requests : tasks[t].pc = "done"
    /\ {tasks["buy_a"].outcome, tasks["buy_b"].outcome}
          = {Some("ok"), Some("Insufficient balance")}
    /\ tasks["state"].outcome = Some("ok")
    /\ tasks["tick"].outcome = Some("ok")
    /\ simulator_db["u1"].trade_count = 1
    /\ Len(trades_db) = 1

====
